---------------------------- MODULE Spec2Model ----------------------------
(***************************************************************************)
(* A model of the wavefunction-collapse solver: cells, the grid layout,    *)
(* the weighted iterator, the wavefunctions (the land/coast/sea grid, the  *)
(* sudoku, the learned 2x2-tile wavefunction and one written by a caller)  *)
(* and the recursive search of Solver, with its call stack made explicit.  *)
(***************************************************************************)
EXTENDS Integers, Sequences, FiniteSets, TLC

(***************************************************************************)
(* Bounds of the model.                                                    *)
(***************************************************************************)
\* width and height of the grid every wavefunction is created with
GridX == 2
GridY == 2
\* the sudoku's digits are 1..NumDigits
NumDigits == 3
\* calls of collapse_initial and of solve in one behaviour
MaxPins == 3
MaxSolves == 2
\* the weights of the maps a cell or an iterator is called with are at most
\* MaxWeight, and at most MaxCalls operations are called on one cell
MaxWeight == 2
MaxCalls == 2

(***************************************************************************)
(* usize arithmetic.  usize is 64 bits wide; TLC's integers are 32 bits    *)
(* wide, so the model wraps at 2^30: what matters is that a wrapped        *)
(* coordinate is far outside every grid.                                   *)
(***************************************************************************)
UsizeModulus == 2 ^ 30

wrapping_sub(a, b) == (a - b) % UsizeModulus

wrapping_add(a, b) == (a + b) % UsizeModulus

saturating_sub(a, b) == IF a >= b THEN a - b ELSE 0

Min(a, b) == IF a <= b THEN a ELSE b

Max(a, b) == IF a >= b THEN a ELSE b

RECURSIVE Gcd(_, _)
Gcd(a, b) == IF b = 0 THEN a ELSE Gcd(b, a % b)

Range(s) == {s[i] : i \in DOMAIN s}

\* all orders of the elements of a finite set, as sequences
Orders(S) == {s \in [1..Cardinality(S) -> S] : Range(s) = S}

(***************************************************************************)
(* HashMap<V, usize>: a function from the keys to their weights.           *)
(***************************************************************************)
EmptyMap == [v \in {} |-> 0]

Keys(m) == DOMAIN m

MapGet(m, k) == IF k \in DOMAIN m THEN m[k] ELSE 0

MapRemove(m, k) == [v \in (DOMAIN m) \ {k} |-> m[v]]

MapInsert(m, k, w) == [v \in (DOMAIN m) \cup {k} |-> IF v = k THEN w ELSE m[v]]

RECURSIVE SumOver(_, _)
SumOver(m, S) ==
    IF S = {} THEN 0
    ELSE LET k == CHOOSE k \in S : TRUE IN m[k] + SumOver(m, S \ {k})

SumWeights(m) == SumOver(m, DOMAIN m)

RECURSIVE GcdOver(_, _)
GcdOver(m, S) ==
    IF S = {} THEN 0
    ELSE LET k == CHOOSE k \in S : TRUE IN Gcd(m[k], GcdOver(m, S \ {k}))

(***************************************************************************)
(* Cell                                                                    *)
(***************************************************************************)
Collapsed(v) == [tag |-> "Collapsed", value |-> v]

Uncollapsed(m) == [tag |-> "Uncollapsed", possibilities |-> m]

is_collapsed(cell) == cell.tag = "Collapsed"

\* f64 values of the entropy computation: a ratio num/den of scaled
\* logarithms, or NaN.  den = 0 stands for f64::MAX.
F64(num, den) == [nan |-> FALSE, num |-> num, den |-> den]

F64NaN == [nan |-> TRUE, num |-> 0, den |-> 1]

F64Max == F64(1, 0)

F64Less(a, b) == ~a.nan /\ ~b.nan /\ a.num * b.den < b.num * a.den

F64Equal(a, b) == ~a.nan /\ ~b.nan /\ a.num * b.den = b.num * a.den

\* 10000 * log2(n), rounded, for n in 1..64
Log2Table ==
    << 0, 10000, 15850, 20000, 23219, 25850, 28074, 30000,
       31699, 33219, 34594, 35850, 37004, 38074, 39069, 40000,
       40875, 41699, 42479, 43219, 43923, 44594, 45236, 45850,
       46439, 47004, 47549, 48074, 48580, 49069, 49542, 50000,
       50444, 50875, 51293, 51699, 52095, 52479, 52854, 53219,
       53576, 53923, 54263, 54594, 54919, 55236, 55546, 55850,
       56147, 56439, 56724, 57004, 57279, 57549, 57814, 58074,
       58329, 58580, 58826, 59069, 59307, 59542, 59773, 60000 >>

Log2Scaled(n) == Log2Table[n]

RECURSIVE WLogWOver(_, _, _)
WLogWOver(m, g, S) ==
    IF S = {} THEN 0
    ELSE LET k == CHOOSE k \in S : TRUE
         IN  (m[k] \div g) * Log2Scaled(m[k] \div g) + WLogWOver(m, g, S \ {k})

\* Shannon entropy -sum(p * log2 p), p = chance / total.  The weights are
\* divided by their gcd first: chance / total is the same f64 for
\* proportional maps.  With no entry the sum is empty and the result -0.0;
\* a zero chance makes 0 * log2(0) = NaN.
entropy(cell) ==
    IF is_collapsed(cell) THEN F64(0, 1)
    ELSE LET m == cell.possibilities
             g == GcdOver(m, DOMAIN m)
         IN  IF DOMAIN m = {} THEN F64(0, 1)
             ELSE IF \E k \in DOMAIN m : m[k] = 0 THEN F64NaN
             ELSE F64((SumWeights(m) \div g) * Log2Scaled(SumWeights(m) \div g)
                        - WLogWOver(m, g, DOMAIN m),
                      SumWeights(m) \div g)

\* Cell::collapse with its boolean taken for a guard: the cell is overwritten
\* only when the value was its own or one of its possibilities
Cell_collapse_guarded(cell, value) ==
    IF (is_collapsed(cell) /\ cell.value = value)
          \/ (~is_collapsed(cell) /\ value \in DOMAIN cell.possibilities)
    THEN Collapsed(value)
    ELSE cell

\* Cell::collapse: the cell afterwards, and the boolean it returns
Cell_collapse(cell, value) == Collapsed(value)

\* the boolean of Cell::collapse saying only whether a possibility was chosen
Cell_collapse_result_of_possibilities(cell, value) ==
    ~is_collapsed(cell) /\ value \in DOMAIN cell.possibilities

Cell_collapse_result(cell, value) ==
    IF is_collapsed(cell) THEN cell.value = value
    ELSE value \in DOMAIN cell.possibilities

get_possibilities(cell) ==
    IF is_collapsed(cell) THEN EmptyMap ELSE cell.possibilities

set_possibilities(cell, possibilities) == Uncollapsed(possibilities)

Cell_add_possibility_count(cell, possibility, weight) ==
    IF is_collapsed(cell) THEN cell
    ELSE Uncollapsed(MapInsert(cell.possibilities, possibility,
                               MapGet(cell.possibilities, possibility) + weight))

Cell_add_possibility(cell, possibility) ==
    IF is_collapsed(cell) THEN cell
    ELSE Uncollapsed(MapInsert(cell.possibilities, possibility,
                               MapGet(cell.possibilities, possibility) + 1))

\* add_possibilities without its test for Uncollapsed: a collapsed cell
\* becomes a superposition of the added possibilities
Cell_add_possibilities_unguarded(cell, possibilities) ==
    Uncollapsed([v \in (DOMAIN get_possibilities(cell)) \cup (DOMAIN possibilities) |->
                    MapGet(get_possibilities(cell), v) + MapGet(possibilities, v)])

Cell_add_possibilities(cell, possibilities) ==
    IF is_collapsed(cell) THEN cell
    ELSE Uncollapsed([v \in (DOMAIN cell.possibilities) \cup (DOMAIN possibilities) |->
                        MapGet(cell.possibilities, v) + MapGet(possibilities, v)])

Cell_remove_possibility(cell, possibility) ==
    IF is_collapsed(cell) THEN cell
    ELSE Uncollapsed(MapRemove(cell.possibilities, possibility))

\* Cell::remove_possibility_count: the entry leaves the map when its weight
\* reaches 0
Cell_remove_possibility_count(cell, possibility, weight) ==
    IF is_collapsed(cell) \/ possibility \notin DOMAIN cell.possibilities THEN cell
    ELSE IF saturating_sub(cell.possibilities[possibility], weight) = 0
         THEN Uncollapsed(MapRemove(cell.possibilities, possibility))
         ELSE Uncollapsed(MapInsert(cell.possibilities, possibility,
                                    saturating_sub(cell.possibilities[possibility], weight)))

\* Cell::remove_possibilities: the same for every entry of possibilities
Cell_remove_possibilities(cell, possibilities) ==
    IF is_collapsed(cell) THEN cell
    ELSE Uncollapsed(
            [v \in {k \in DOMAIN cell.possibilities :
                        k \in DOMAIN possibilities
                            => saturating_sub(cell.possibilities[k], possibilities[k]) # 0} |->
                saturating_sub(cell.possibilities[v], MapGet(possibilities, v))])

\* merge_possibility: the combined weight of an entry in both maps
merge_possibility(func, first, second) ==
    CASE func = "Min" -> Min(first, second)
      [] func = "Max" -> Max(first, second)
      [] func = "A" -> first
      [] func = "B" -> second
      [] func = "Add" -> first + second
      [] func = "Subtract" -> saturating_sub(first, second)

KeepsCellOnly(op) == op \in {"Union", "Modification", "Xor", "Subtraction"}

KeepsOverlap(op) == op \in {"Union", "Modification", "Replacement", "Intersection"}

AddsWeights(op) == op \in {"Union", "Xor", "Replacement", "ExclusiveReplacement"}

\* merge_possibility reaches unimplemented!() for Function::Multiply: it is
\* called by retain for the first entry of the cell that is in both maps and
\* that the operation keeps
merge_panics(cell, op, func, weights) ==
    /\ ~is_collapsed(cell)
    /\ func = "Multiply"
    /\ KeepsOverlap(op)
    /\ (DOMAIN cell.possibilities) \cap (DOMAIN weights) # {}

\* Cell::merge_cell_possibilities: retain, then add_possibilities(weights)
\* for the operations that include the new weights
Cell_merge_cell_possibilities(cell, op, func, weights) ==
    IF is_collapsed(cell) THEN cell
    ELSE LET old == cell.possibilities
             kept == {v \in DOMAIN old :
                        IF v \in DOMAIN weights THEN KeepsOverlap(op) ELSE KeepsCellOnly(op)}
             retained == [v \in kept |->
                            IF v \in DOMAIN weights
                            THEN merge_possibility(func, old[v], weights[v])
                            ELSE old[v]]
         IN  IF AddsWeights(op)
             THEN Cell_add_possibilities(Uncollapsed(retained), weights)
             ELSE Uncollapsed(retained)

(***************************************************************************)
(* Coord2D: <<x, y>>, y growing downwards, wrapping at the edges of usize. *)
(***************************************************************************)
Coord2D(x, y) == <<x, y>>

up(c) == <<c[1], wrapping_sub(c[2], 1)>>

down(c) == <<c[1], wrapping_add(c[2], 1)>>

left(c) == <<wrapping_sub(c[1], 1), c[2]>>

right(c) == <<wrapping_add(c[1], 1), c[2]>>

up_left(c) == <<wrapping_sub(c[1], 1), wrapping_sub(c[2], 1)>>

up_right(c) == <<wrapping_add(c[1], 1), wrapping_sub(c[2], 1)>>

down_left(c) == <<wrapping_sub(c[1], 1), wrapping_add(c[2], 1)>>

down_right(c) == <<wrapping_add(c[1], 1), wrapping_add(c[2], 1)>>

\* Coord2D::neighbors: the eight neighbours
Coord2D_neighbors(c) ==
    << up_left(c), up(c), up_right(c), left(c), right(c),
       down_left(c), down(c), down_right(c) >>

\* Coord2D::neighbor_directions4: the four orthogonal neighbours
neighbor_directions4(c) ==
    << <<up(c), "Up">>, <<left(c), "Left">>, <<right(c), "Right">>, <<down(c), "Down">> >>

get_neighbor_scaled(c, direction, x, y) ==
    CASE direction = "Up" -> <<c[1], wrapping_sub(c[2], y)>>
      [] direction = "Right" -> <<wrapping_add(c[1], x), c[2]>>
      [] direction = "Down" -> <<c[1], wrapping_add(c[2], y)>>
      [] direction = "Left" -> <<wrapping_sub(c[1], x), c[2]>>

(***************************************************************************)
(* Grid and the Layout trait.  A grid is its size and its cells, keyed by  *)
(* coordinate.                                                             *)
(***************************************************************************)
GridCoords(x, y) == (0..(x - 1)) \X (0..(y - 1))

Grid_new(x, y) ==
    [x |-> x, y |-> y, cells |-> [c \in GridCoords(x, y) |-> Uncollapsed(EmptyMap)]]

\* get_cell looking for the row only
HasRow(layout, coord) == coord[2] < layout.y

\* Grid::get_cell / get_cell_mut find a cell: the row exists and the cell in it
HasCell(layout, coord) == coord[2] < layout.y /\ coord[1] < layout.x

get_cell(layout, coord) == layout.cells[coord]

SetCell(layout, coord, cell) == [layout EXCEPT !.cells[coord] = cell]

\* Grid::cells: row by row, each row from left to right
Grid_cells(layout) ==
    [i \in 1..(layout.x * layout.y) |-> <<(i - 1) % layout.x, (i - 1) \div layout.x>>]

\* coordinates of cells() that candidates() keeps, in the same order
RECURSIVE FilterUncollapsed(_, _, _)
FilterUncollapsed(layout, coords, i) ==
    IF i > Len(coords) THEN <<>>
    ELSE IF is_collapsed(layout.cells[coords[i]])
         THEN FilterUncollapsed(layout, coords, i + 1)
         ELSE <<coords[i]>> \o FilterUncollapsed(layout, coords, i + 1)

candidates(layout) == FilterUncollapsed(layout, Grid_cells(layout), 1)

Grid_row(layout, y) == [i \in 1..layout.x |-> <<i - 1, y>>]

Grid_col(layout, x) == [i \in 1..layout.y |-> <<x, i - 1>>]

\* Grid::neighbors: the eight neighbours; the additions here do not wrap
Grid_neighbors(layout, c) ==
    << <<wrapping_sub(c[1], 1), wrapping_sub(c[2], 1)>>,
       <<c[1], wrapping_sub(c[2], 1)>>,
       <<c[1] + 1, wrapping_sub(c[2], 1)>>,
       <<wrapping_sub(c[1], 1), c[2]>>,
       <<c[1] + 1, c[2]>>,
       <<wrapping_sub(c[1], 1), c[2] + 1>>,
       <<c[1], c[2] + 1>>,
       <<c[1] + 1, c[2] + 1>> >>

\* Layout::collapse: the layout afterwards, and the boolean it returns
Layout_collapse(layout, coord, value) ==
    IF HasCell(layout, coord)
    THEN SetCell(layout, coord, Cell_collapse(get_cell(layout, coord), value))
    ELSE layout

Layout_collapse_result(layout, coord, value) ==
    IF HasCell(layout, coord)
    THEN Cell_collapse_result(get_cell(layout, coord), value)
    ELSE FALSE

remove_cell_possibility(layout, coord, possibility) ==
    IF HasCell(layout, coord)
    THEN SetCell(layout, coord, Cell_remove_possibility(get_cell(layout, coord), possibility))
    ELSE layout

RECURSIVE RemoveFrom(_, _, _, _)
RemoveFrom(layout, coords, i, possibility) ==
    IF i > Len(coords) THEN layout
    ELSE RemoveFrom(remove_cell_possibility(layout, coords[i], possibility),
                    coords, i + 1, possibility)

remove_cells_possibility(layout, coords, possibility) ==
    RemoveFrom(layout, coords, 1, possibility)

\* Layout::add_cell_possibility_count: on the cell, when in bounds
add_cell_possibility_count(layout, coord, possibility, count) ==
    IF HasCell(layout, coord)
    THEN SetCell(layout, coord,
                 Cell_add_possibility_count(get_cell(layout, coord), possibility, count))
    ELSE layout

\* Layout::add_possibility / add_possibilities: on every cell
Layout_add_possibility(layout, possibility) ==
    [layout EXCEPT !.cells =
        [c \in DOMAIN layout.cells |-> Cell_add_possibility(layout.cells[c], possibility)]]

Layout_add_possibilities(layout, possibilities) ==
    [layout EXCEPT !.cells =
        [c \in DOMAIN layout.cells |-> Cell_add_possibilities(layout.cells[c], possibilities)]]

add_cell_possibility(layout, coord, possibility) ==
    IF HasCell(layout, coord)
    THEN SetCell(layout, coord, Cell_add_possibility(get_cell(layout, coord), possibility))
    ELSE layout

add_cell_possibilities(layout, coord, possibilities) ==
    IF HasCell(layout, coord)
    THEN SetCell(layout, coord,
                 Cell_add_possibilities(get_cell(layout, coord), possibilities))
    ELSE layout

remove_cell_possibility_count(layout, coord, possibility, count) ==
    IF HasCell(layout, coord)
    THEN SetCell(layout, coord,
                 Cell_remove_possibility_count(get_cell(layout, coord), possibility, count))
    ELSE layout

remove_cell_possibilities(layout, coord, possibilities) ==
    IF HasCell(layout, coord)
    THEN SetCell(layout, coord,
                 Cell_remove_possibilities(get_cell(layout, coord), possibilities))
    ELSE layout

add_cells_possibility(layout, coords, possibility) ==
    LET after[i \in 0..Len(coords)] ==
            IF i = 0 THEN layout
            ELSE add_cell_possibility(after[i - 1], coords[i], possibility)
    IN  after[Len(coords)]

add_cells_possibility_count(layout, coords, possibility, count) ==
    LET after[i \in 0..Len(coords)] ==
            IF i = 0 THEN layout
            ELSE add_cell_possibility_count(after[i - 1], coords[i], possibility, count)
    IN  after[Len(coords)]

add_cells_possibilities(layout, coords, possibilities) ==
    LET after[i \in 0..Len(coords)] ==
            IF i = 0 THEN layout
            ELSE add_cell_possibilities(after[i - 1], coords[i], possibilities)
    IN  after[Len(coords)]

remove_cells_possibility_count(layout, coords, possibility, count) ==
    LET after[i \in 0..Len(coords)] ==
            IF i = 0 THEN layout
            ELSE remove_cell_possibility_count(after[i - 1], coords[i], possibility, count)
    IN  after[Len(coords)]

remove_cells_possibilities(layout, coords, possibilities) ==
    LET after[i \in 0..Len(coords)] ==
            IF i = 0 THEN layout
            ELSE remove_cell_possibilities(after[i - 1], coords[i], possibilities)
    IN  after[Len(coords)]

\* Layout::clear_cell: the cell becomes an empty superposition
clear_cell(layout, coord) ==
    IF HasCell(layout, coord)
    THEN SetCell(layout, coord, Uncollapsed(EmptyMap))
    ELSE layout

\* Layout::merge_cell_possibilities: delegates to the cell when in bounds
Layout_merge_cell_possibilities(layout, coord, op, func, weights) ==
    IF HasCell(layout, coord)
    THEN SetCell(layout, coord,
                 Cell_merge_cell_possibilities(get_cell(layout, coord), op, func, weights))
    ELSE layout

(***************************************************************************)
(* WeightedIterator: the items in the order the HashMap gave them, and the *)
(* sum of the weights computed when it was built.                          *)
(***************************************************************************)
\* the orders in which a HashMap may hand out its entries
ItemOrders(map) == {[i \in 1..Len(o) |-> <<o[i], map[o[i]]>>] : o \in Orders(DOMAIN map)}

WeightedIterator_new(map, items) == [items |-> items, total_sum |-> SumWeights(map)]

RECURSIVE ScanItems(_, _, _, _)
ScanItems(items, index, cumulation, selection) ==
    IF index > Len(items) THEN 0
    ELSE IF cumulation + items[index][2] >= selection THEN index
    ELSE ScanItems(items, index + 1, cumulation + items[index][2], selection)

\* the index next() chooses for a sample (1-based), 0 when it chooses none
chosen_index(items, selection) == ScanItems(items, 1, 0, selection)

\* Vec::swap_remove: the last item takes the place of the removed one
swap_remove(items, index) ==
    [i \in 1..(Len(items) - 1) |-> IF i = index THEN items[Len(items)] ELSE items[i]]

\* gen_range(0..total_sum) panics on an empty range
SampleFails(it) == it.total_sum = 0

Samples(it) == 0..(it.total_sum - 1)

\* the indices next() can choose, over every sample of gen_range
ChosenIndices(it) == {chosen_index(it.items, selection) : selection \in Samples(it)}

\* total_sum as next() leaves it
TotalSumAfterNext(it, index) == it.total_sum

\* the iterator after a next() that chose index (0: none chosen, nothing removed)
WeightedIterator_next(it, index) ==
    IF index = 0 THEN it
    ELSE [items |-> swap_remove(it.items, index),
          total_sum |-> TotalSumAfterNext(it, index)]

\* the item that next() returns, when it chose one
NextItem(it, index) == it.items[index][1]

(***************************************************************************)
(* The wavefunctions.  A wavefunction is its kind, the layout it owns and, *)
(* for Standard2D, the adjacency map.                                      *)
(***************************************************************************)
\* weights of GridTest::new
CoastWeight == 5
SeaWeight == 100
LandWeight == 100

GridTest_possibilities ==
    [v \in {"Coast", "Sea", "Land"} |->
        CASE v = "Coast" -> CoastWeight [] v = "Sea" -> SeaWeight [] v = "Land" -> LandWeight]

GridTest_new(x, y) ==
    [kind |-> "GridTest",
     layout |-> Layout_add_possibilities(Grid_new(x, y), GridTest_possibilities),
     adj_map |-> EmptyMap]

\* GridTest::collapse: land cannot be next to sea
GridTest_collapse(wf, layout, coord, value) ==
    CASE value = "Land" ->
            remove_cells_possibility(layout, Grid_neighbors(layout, coord), "Sea")
      [] value = "Coast" -> layout
      [] value = "Sea" ->
            remove_cells_possibility(layout, Grid_neighbors(layout, coord), "Land")

\* Sudoku::new, on a GridX x GridY board with the digits 1..NumDigits
Sudoku_new ==
    [kind |-> "Sudoku",
     layout |-> Layout_add_possibilities(Grid_new(GridX, GridY), [d \in 1..NumDigits |-> 1]),
     adj_map |-> EmptyMap]

Sudoku_subgrid_range(k) ==
    IF k < 3 THEN <<0, 1, 2>> ELSE IF k < 6 THEN <<3, 4, 5>> ELSE <<7, 8, 9>>

\* the subgrid's coordinates: for each sub_y, each sub_x
Sudoku_subgrid(coord) ==
    LET rows == Sudoku_subgrid_range(coord[2])
        cols == Sudoku_subgrid_range(coord[1])
    IN  [i \in 1..9 |-> <<cols[((i - 1) % 3) + 1], rows[((i - 1) \div 3) + 1]>>]

\* Sudoku::collapse: the value leaves the row, the column and the subgrid
Sudoku_collapse(wf, layout, coord, value) ==
    remove_cells_possibility(
        layout,
        Grid_row(layout, coord[2]) \o Grid_col(layout, coord[1]) \o Sudoku_subgrid(coord),
        value)

\* Tile2D: WIDTH x HEIGHT values, contents[y][x]
TileWidth == 2
TileHeight == 2

saturating_add(a, b) == Min(a + b, UsizeModulus - 1)

\* Grid::get_tile: the tile whose upper left corner is coord; <<>> for None
get_tile(grid, coord) ==
    IF saturating_add(coord[1], TileWidth) > grid.x THEN <<>>
    ELSE IF saturating_add(coord[2], TileHeight) > grid.y THEN <<>>
    ELSE IF \E x \in coord[1]..(coord[1] + TileWidth - 1),
               y \in coord[2]..(coord[2] + TileHeight - 1) :
                ~is_collapsed(get_cell(grid, <<x, y>>))
         THEN <<>>
    ELSE [y \in 1..TileHeight |->
            [x \in 1..TileWidth |->
                get_cell(grid, <<coord[1] + x - 1, coord[2] + y - 1>>).value]]

\* Tile2D::values with x and y taken for each other
Tile2D_values_transposed(tile) ==
    [i \in 1..(TileWidth * TileHeight) |->
        <<(i - 1) \div TileWidth, (i - 1) % TileWidth,
          tile[((i - 1) \div TileWidth) + 1][((i - 1) % TileWidth) + 1]>>]

\* Tile2D::values: <<x, y, value>>, row by row
Tile2D_values(tile) ==
    [i \in 1..(TileWidth * TileHeight) |->
        <<(i - 1) % TileWidth, (i - 1) \div TileWidth,
          tile[((i - 1) \div TileWidth) + 1][((i - 1) % TileWidth) + 1]>>]

\* Grid::detile, for one cell of the grid of tiles: a collapsed tile
\* collapses the cells it covers; an uncollapsed one gives each cell it covers
\* the weights of its tiles, added up by the value they have there
DetileCell(grid, tiles, coord) ==
    LET cell == get_cell(tiles, coord)
        Place(g, v) ==
            Layout_collapse(g, <<coord[1] * TileWidth + v[1], coord[2] * TileHeight + v[2]>>,
                            v[3])
        Spread(g, v) ==
            LET at == <<coord[1] * TileWidth + v[1], coord[2] * TileHeight + v[2]>>
                here == {t[v[2] + 1][v[1] + 1] : t \in DOMAIN cell.possibilities}
            IN  add_cell_possibilities(
                    g, at,
                    [value \in here |->
                        SumOver(cell.possibilities,
                                {t \in DOMAIN cell.possibilities :
                                    t[v[2] + 1][v[1] + 1] = value})])
        values == Tile2D_values(cell.value)
        placed[i \in 0..Len(values)] ==
            IF i = 0 THEN grid ELSE Place(placed[i - 1], values[i])
        positions == [i \in 1..(TileWidth * TileHeight) |->
                        <<(i - 1) \div TileHeight, (i - 1) % TileHeight>>]
        spread[i \in 0..Len(positions)] ==
            IF i = 0 THEN grid ELSE Spread(spread[i - 1], positions[i])
    IN  IF is_collapsed(cell) THEN placed[Len(values)] ELSE spread[Len(positions)]

\* Grid::detile
detile(tiles) ==
    LET coords == Grid_cells(tiles)
        after[i \in 0..Len(coords)] ==
            IF i = 0 THEN Grid_new(tiles.x * TileWidth, tiles.y * TileHeight)
            ELSE DetileCell(after[i - 1], tiles, coords[i])
    IN  after[Len(coords)]

\* the sample Standard2D learns from: sea above a coast above land
MaterialRows ==
    << <<"Sea", "Sea", "Sea", "Sea">>,
       <<"Sea", "Sea", "Sea", "Sea">>,
       <<"Coast", "Coast", "Coast", "Coast">>,
       <<"Land", "Land", "Land", "Land">> >>

Material ==
    [x |-> Len(MaterialRows[1]), y |-> Len(MaterialRows),
     cells |-> [c \in GridCoords(Len(MaterialRows[1]), Len(MaterialRows)) |->
                  Collapsed(MaterialRows[c[2] + 1][c[1] + 1])]]

Standard2D_new(x, y) ==
    [kind |-> "Standard2D", layout |-> Grid_new(x, y), adj_map |-> EmptyMap]

\* Standard2D::add_adjacency: one more observation of adjacent next to tile
add_adjacency(adj_map, tile, direction, adjacent) ==
    LET tile_adj == IF tile \in DOMAIN adj_map THEN adj_map[tile] ELSE EmptyMap
        direction_adj == IF direction \in DOMAIN tile_adj THEN tile_adj[direction] ELSE EmptyMap
    IN  MapInsert(adj_map, tile,
            MapInsert(tile_adj, direction,
                MapInsert(direction_adj, adjacent, MapGet(direction_adj, adjacent) + 1)))

\* learn leaving out the last direction
LearnDirectionsWithoutLeft == <<"Up", "Right", "Down">>

LearnDirections == <<"Up", "Right", "Down", "Left">>

RECURSIVE LearnNeighbors(_, _, _, _, _)
LearnNeighbors(adj_map, material, tile_coord, tile, i) ==
    IF i > Len(LearnDirections) THEN adj_map
    ELSE LET neighbor_coord ==
                 get_neighbor_scaled(tile_coord, LearnDirections[i], TileWidth, TileHeight)
             adjacent == get_tile(material, neighbor_coord)
         IN  LearnNeighbors(
                 IF adjacent # <<>>
                 THEN add_adjacency(adj_map, tile, LearnDirections[i], adjacent)
                 ELSE adj_map,
                 material, tile_coord, tile, i + 1)

\* the coordinates learn visits: for x, for y
LearnCoords(material) ==
    [i \in 1..(material.x * material.y) |-> <<(i - 1) \div material.y, (i - 1) % material.y>>]

RECURSIVE LearnFrom(_, _, _)
LearnFrom(wf, material, i) ==
    IF i > material.x * material.y THEN wf
    ELSE LET tile_coord == LearnCoords(material)[i]
             tile == get_tile(material, tile_coord)
         IN  IF tile = <<>> THEN LearnFrom(wf, material, i + 1)
             ELSE LearnFrom(
                     [wf EXCEPT
                        !.adj_map = LearnNeighbors(wf.adj_map, material, tile_coord, tile, 1),
                        !.layout = Layout_add_possibility(wf.layout, tile)],
                     material, i + 1)

\* Standard2D::learn
learn(wf, material) == LearnFrom(wf, material, 1)

RECURSIVE ClearAll(_, _, _)
ClearAll(layout, coords, i) ==
    IF i > Len(coords) THEN layout
    ELSE ClearAll(clear_cell(layout, coords[i]), coords, i + 1)

RECURSIVE ConstrainNeighbors(_, _, _, _)
ConstrainNeighbors(layout, tile_adjacencies, neighbors, i) ==
    IF i > Len(neighbors) THEN layout
    ELSE LET neighbor == neighbors[i][1]
             direction == neighbors[i][2]
         IN  ConstrainNeighbors(
                 IF direction \in DOMAIN tile_adjacencies
                 THEN Layout_merge_cell_possibilities(layout, neighbor, "Intersection", "Min",
                                                      tile_adjacencies[direction])
                 ELSE clear_cell(layout, neighbor),
                 tile_adjacencies, neighbors, i + 1)

\* Standard2D::collapse
Standard2D_collapse(wf, layout, coord, value) ==
    IF value \notin DOMAIN wf.adj_map
    THEN ClearAll(layout, Coord2D_neighbors(coord), 1)
    ELSE ConstrainNeighbors(layout, wf.adj_map[value], neighbor_directions4(coord), 1)

\* A wavefunction written by a caller of the library (an implementation of
\* the Wavefunction trait): every cell starts with the values A and B of
\* weight 1, the cell (0, 0) also with the value C of weight 0, and the hook
\* removes the value just set from the four orthogonal neighbours.
Custom_new(x, y) ==
    [kind |-> "Custom",
     layout |-> add_cell_possibility_count(
                    Layout_add_possibilities(Grid_new(x, y), [v \in {"A", "B"} |-> 1]),
                    <<0, 0>>, "C", 0),
     adj_map |-> EmptyMap]

Custom_collapse(wf, layout, coord, value) ==
    remove_cells_possibility(
        layout,
        [i \in 1..4 |-> neighbor_directions4(coord)[i][1]],
        value)

\* the search going on without invoking the hook
Wavefunction_collapse_skipped(wf, layout, coord, value) == layout

\* Wavefunction::collapse of the wavefunction at hand
Wavefunction_collapse(wf, layout, coord, value) ==
    CASE wf.kind = "GridTest" -> GridTest_collapse(wf, layout, coord, value)
      [] wf.kind = "Sudoku" -> Sudoku_collapse(wf, layout, coord, value)
      [] wf.kind = "Standard2D" -> Standard2D_collapse(wf, layout, coord, value)
      [] wf.kind = "Custom" -> Custom_collapse(wf, layout, coord, value)

\* Wavefunction::get_initial_state
get_initial_state(wf) == wf.layout

\* the wavefunctions a solver is created with
WavefunctionKinds == {"GridTest", "Sudoku", "Standard2D", "Custom"}

Wavefunction_new(kind) ==
    CASE kind = "GridTest" -> GridTest_new(GridX, GridY)
      [] kind = "Sudoku" -> Sudoku_new
      [] kind = "Standard2D" -> learn(Standard2D_new(GridX, GridY), Material)
      [] kind = "Custom" -> Custom_new(GridX, GridY)

\* the values of a wavefunction's cells
Values(wf) ==
    CASE wf.kind = "GridTest" -> {"Land", "Coast", "Sea"}
      [] wf.kind = "Sudoku" -> 1..NumDigits
      [] wf.kind = "Standard2D" -> DOMAIN wf.layout.cells[<<0, 0>>].possibilities
      [] wf.kind = "Custom" -> {"A", "B", "C"}

(***************************************************************************)
(* Solver.  wavefunction, initial_state and backtracks are its fields.     *)
(* stack holds the active calls of Solver::collapse, innermost last; pc    *)
(* and result say where solve() stands and what it returned.  pins, solves *)
(* and abandoned record the calls made so far and the branches given up    *)
(* during the current solve().                                             *)
(***************************************************************************)
VARIABLES wavefunction, initial_state, backtracks, pc, stack, result, pins, solves, abandoned

solver_vars ==
    <<wavefunction, initial_state, backtracks, pc, stack, result, pins, solves, abandoned>>

\* A cell that the operations of Cell are called on: cell is the cell,
\* cell_before the cell before the latest call, call that call with its
\* arguments, returned what it returned, calls the number of calls made, and
\* inputs_positive whether every weight passed in so far was positive.
VARIABLES cell, cell_before, call, returned, calls, inputs_positive

cell_vars == <<cell, cell_before, call, returned, calls, inputs_positive>>

\* A WeightedIterator: pool is the map it was built from, iterator its
\* fields, yielded the items it has returned, and next_result what the latest
\* next() did.
VARIABLES pool, iterator, yielded, next_result

iterator_vars == <<pool, iterator, yielded, next_result>>

\* The samples Standard2D::learn was called with, as indices of Materials
VARIABLES learned

vars == <<solver_vars, cell_vars, iterator_vars, learned>>

Call(name, value, weight, weights, op, func, coord) ==
    [name |-> name, value |-> value, weight |-> weight, weights |-> weights,
     op |-> op, func |-> func, coord |-> coord]

NoCall == Call("none", "-", 0, EmptyMap, "-", "-", <<0, 0>>)

\* no cell operation has been called
NoCellCalls ==
    /\ cell = Uncollapsed(EmptyMap)
    /\ cell_before = Uncollapsed(EmptyMap)
    /\ call = NoCall
    /\ returned = "nothing"
    /\ calls = 0
    /\ inputs_positive = TRUE

\* no iterator is at hand other than those of the search
NoIterator ==
    /\ pool = EmptyMap
    /\ iterator = [items |-> <<>>, total_sum |-> 0]
    /\ yielded = <<>>
    /\ next_result = "nothing"

NoResult == [kind |-> "NoResult", layout |-> <<>>]

SomeLayout(layout) == [kind |-> "Some", layout |-> layout]

NoneResult == [kind |-> "None", layout |-> <<>>]

Panicked == [kind |-> "Panic", layout |-> <<>>]

RECURSIVE ScanCandidates(_, _, _, _, _)
ScanCandidates(layout, coords, i, last_coords, last_entropy) ==
    IF i > Len(coords) THEN last_coords
    ELSE LET e == entropy(get_cell(layout, coords[i]))
             pushed == IF F64Equal(e, last_entropy)
                       THEN Append(last_coords, coords[i])
                       ELSE last_coords
         IN  IF F64Less(e, last_entropy)
             THEN ScanCandidates(layout, coords, i + 1, <<coords[i]>>, e)
             ELSE ScanCandidates(layout, coords, i + 1, pushed, last_entropy)

\* Solver::next_coord: the coordinates choose() picks from; none when empty
next_coord(layout) == Range(ScanCandidates(layout, candidates(layout), 1, <<>>, F64Max))

\* the candidates of a branch cell read from the state the search started in
BranchPossibilitiesUnpruned(layout, coord) ==
    get_possibilities(get_cell(initial_state, coord))

\* the candidates Solver::collapse goes through: the possibility map of the
\* cell in the layout it was given
BranchPossibilities(layout, coord) == get_possibilities(get_cell(layout, coord))

\* a call of Solver::collapse(layout, coord) about to run its loop, the
\* HashMap having handed its entries to the iterator in the order of items
Frame(layout, coord, items) ==
    [layout |-> layout,
     coord |-> coord,
     possibilities |-> BranchPossibilities(layout, coord),
     iter |-> WeightedIterator_new(BranchPossibilities(layout, coord), items),
     tried |-> <<>>]

Frames(layout, coord) ==
    {Frame(layout, coord, items) :
        items \in ItemOrders(BranchPossibilities(layout, coord))}

\* the loop body working in the layout it was given, without the clone
LayoutSharedWithCandidate(layout, new_layout) == new_layout

\* the layout Solver::collapse was given, after the loop body has worked on
\* its clone
LayoutAfterCandidate(layout, new_layout) == layout

\* solve() searching in self.initial_state itself, without the clone
InitialStateSharedWithSearch(initial, working) == working

\* self.initial_state after a step of solve(), which works on clones
InitialStateAfterSolveStep(initial, working) == initial

\* the counter counting every candidate tried, not only abandoned branches
BacktracksCountingCandidates(b) == b + 1

\* self.backtracks after the loop body has tried a candidate
BacktracksAfterCandidate(b) == b

\* self.backtracks after the loop has run out of candidates
BacktracksAfterExhaustion(b) == b + 1

\* Solver::new
Init ==
    /\ \E kind \in WavefunctionKinds : wavefunction = Wavefunction_new(kind)
    /\ initial_state = get_initial_state(wavefunction)
    /\ backtracks = 0
    /\ pc = "ready"
    /\ stack = <<>>
    /\ result = NoResult
    /\ pins = <<>>
    /\ solves = 0
    /\ abandoned = 0
    /\ NoCellCalls
    /\ NoIterator
    /\ learned = <<>>

\* Solver::collapse_initial(coord, value)
collapse_initial(coord, value) ==
    /\ pc = "ready"
    /\ Len(pins) < MaxPins
    /\ initial_state' =
          Wavefunction_collapse(wavefunction,
                                Layout_collapse(initial_state, coord, value), coord, value)
    /\ pins' = Append(pins, <<coord, value>>)
    /\ result' = NoResult
    /\ UNCHANGED <<wavefunction, backtracks, pc, stack, solves, abandoned>>
    /\ UNCHANGED <<cell_vars, iterator_vars, learned>>

\* Solver::solve, up to its call of collapse
solve ==
    /\ pc = "ready"
    /\ solves < MaxSolves
    /\ solves' = solves + 1
    /\ backtracks' = 0
    /\ abandoned' = 0
    /\ initial_state' = InitialStateAfterSolveStep(initial_state, initial_state)
    /\ IF next_coord(initial_state) = {}
       THEN /\ result' = SomeLayout(initial_state)
            /\ UNCHANGED <<pc, stack>>
       ELSE /\ \E new_coord \in next_coord(initial_state) :
                 \E frame \in Frames(initial_state, new_coord) : stack' = <<frame>>
            /\ pc' = "solving"
            /\ result' = NoResult
    /\ UNCHANGED <<wavefunction, pins>>
    /\ UNCHANGED <<cell_vars, iterator_vars, learned>>

\* One pass of the loop in the innermost Solver::collapse: next() on the
\* iterator, then either the loop body (clone, commit, propagate, choose the
\* next coordinate, recurse or return the layout) or the end of the loop.
collapse_iteration ==
    /\ pc = "solving"
    /\ LET depth == Len(stack)
           top == stack[depth]
       IN  IF SampleFails(top.iter)
           THEN /\ pc' = "panicked"
                /\ result' = Panicked
                /\ UNCHANGED <<initial_state, backtracks, stack, abandoned>>
           ELSE \E index \in ChosenIndices(top.iter) :
                  IF index = 0
                  THEN \* the iterator is done: count the backtrack, return None
                       /\ backtracks' = BacktracksAfterExhaustion(backtracks)
                       /\ abandoned' = abandoned + 1
                       /\ stack' = SubSeq(stack, 1, depth - 1)
                       /\ pc' = IF depth = 1 THEN "ready" ELSE "solving"
                       /\ result' = IF depth = 1 THEN NoneResult ELSE NoResult
                       /\ UNCHANGED initial_state
                  ELSE LET possibility == NextItem(top.iter, index)
                           after == [top EXCEPT
                                       !.iter = WeightedIterator_next(top.iter, index),
                                       !.tried = Append(top.tried, possibility)]
                           committed == SetCell(top.layout, top.coord, Collapsed(possibility))
                           new_layout == Wavefunction_collapse(wavefunction, committed,
                                                               top.coord, possibility)
                           kept == [after EXCEPT
                                      !.layout = LayoutAfterCandidate(top.layout, new_layout)]
                       IN  /\ backtracks' = BacktracksAfterCandidate(backtracks)
                           /\ initial_state' =
                                 InitialStateAfterSolveStep(initial_state, new_layout)
                           /\ UNCHANGED abandoned
                           /\ IF next_coord(new_layout) = {}
                              THEN \* Some(new_layout) is returned through every caller
                                   /\ stack' = <<>>
                                   /\ pc' = "ready"
                                   /\ result' = SomeLayout(new_layout)
                              ELSE /\ \E new_coord \in next_coord(new_layout) :
                                        \E frame \in Frames(new_layout, new_coord) :
                                            stack' = Append([stack EXCEPT ![depth] = kept],
                                                            frame)
                                   /\ UNCHANGED <<pc, result>>
    /\ UNCHANGED <<wavefunction, pins, solves>>
    /\ UNCHANGED <<cell_vars, iterator_vars, learned>>

Next ==
    \/ \E coord \in DOMAIN initial_state.cells, value \in Values(wavefunction) :
            collapse_initial(coord, value)
    \/ solve
    \/ collapse_iteration

Spec == Init /\ [][Next]_vars

\* the solver created with a wavefunction whose hook is all in the source
\* at hand (Standard2D's hook calls two Layout methods that are not)
InitSource == Init /\ wavefunction.kind # "Standard2D"

SpecSource == InitSource /\ [][Next]_vars

(***************************************************************************)
(* Standard2D taught by calls of learn before the solver is created with   *)
(* it, and cells pinned then.                                              *)
(***************************************************************************)
MaxLearns == 2

\* the sample with its last cell still a superposition
MaterialPartlyCollapsed == [Material EXCEPT !.cells[<<3, 3>>] = Uncollapsed(EmptyMap)]

\* a sample of the size of one tile
MaterialOneTileRows == << <<"Sea", "Sea">>, <<"Land", "Land">> >>

MaterialOneTile ==
    [x |-> TileWidth, y |-> TileHeight,
     cells |-> [c \in GridCoords(TileWidth, TileHeight) |->
                  Collapsed(MaterialOneTileRows[c[2] + 1][c[1] + 1])]]

Materials == <<Material, MaterialPartlyCollapsed, MaterialOneTile>>

\* Standard2D::new
InitTiles ==
    /\ wavefunction = Standard2D_new(GridX, GridY)
    /\ initial_state = get_initial_state(wavefunction)
    /\ backtracks = 0
    /\ pc = "learning"
    /\ stack = <<>>
    /\ result = NoResult
    /\ pins = <<>>
    /\ solves = 0
    /\ abandoned = 0
    /\ NoCellCalls
    /\ NoIterator
    /\ learned = <<>>

\* Standard2D::learn(material)
call_learn(m) ==
    /\ pc = "learning"
    /\ Len(learned) < MaxLearns
    /\ wavefunction' = learn(wavefunction, Materials[m])
    /\ learned' = Append(learned, m)
    /\ UNCHANGED <<initial_state, backtracks, pc, stack, result, pins, solves, abandoned>>
    /\ UNCHANGED <<cell_vars, iterator_vars>>

\* Solver::new(wavefunction)
Solver_new ==
    /\ pc = "learning"
    /\ initial_state' = get_initial_state(wavefunction)
    /\ backtracks' = 0
    /\ pc' = "ready"
    /\ UNCHANGED <<wavefunction, stack, result, pins, solves, abandoned, learned>>
    /\ UNCHANGED <<cell_vars, iterator_vars>>

NextTiles ==
    \/ \E m \in DOMAIN Materials : call_learn(m)
    \/ Solver_new
    \/ \E coord \in DOMAIN initial_state.cells, value \in Values(wavefunction) :
            collapse_initial(coord, value)

SpecTiles == InitTiles /\ [][NextTiles]_vars

(***************************************************************************)
(* The operations of Cell, called one after another on one cell.           *)
(***************************************************************************)
\* a solver that was created and is left alone
SolverUnused ==
    /\ wavefunction = GridTest_new(GridX, GridY)
    /\ initial_state = get_initial_state(wavefunction)
    /\ backtracks = 0
    /\ pc = "ready"
    /\ stack = <<>>
    /\ result = NoResult
    /\ pins = <<>>
    /\ solves = 0
    /\ abandoned = 0
    /\ learned = <<>>

CellValues == {"a", "b"}

\* the maps with weights from lowest to MaxWeight
WeightMaps(lowest) == UNION {[S -> lowest..MaxWeight] : S \in SUBSET CellValues}

Operations ==
    {"Union", "Modification", "Xor", "Subtraction",
     "Replacement", "Intersection", "ExclusiveReplacement", "Null"}

Functions == {"Min", "Max", "A", "B", "Multiply", "Add", "Subtract"}

AllPositive(m) == \A k \in DOMAIN m : m[k] > 0

\* a grid of one cell, to call the operations of Layout on
GridOf(c) == [x |-> 1, y |-> 1, cells |-> [k \in GridCoords(1, 1) |-> c]]

\* a cell as its constructors and positive weights make it
InitCell ==
    /\ SolverUnused
    /\ NoIterator
    /\ cell \in {Uncollapsed(m) : m \in WeightMaps(1)} \cup {Collapsed(v) : v \in CellValues}
    /\ cell_before = cell
    /\ call = NoCall
    /\ returned = "nothing"
    /\ calls = 0
    /\ inputs_positive = TRUE

\* a call c that leaves the cell as after and returns ret
CellCall(c, after, ret, positive) ==
    /\ calls < MaxCalls
    /\ returned # "panicked"
    /\ cell_before' = cell
    /\ cell' = after
    /\ call' = c
    /\ returned' = ret
    /\ calls' = calls + 1
    /\ inputs_positive' = (inputs_positive /\ positive)
    /\ UNCHANGED <<solver_vars, iterator_vars, learned>>

call_add_possibility(possibility) ==
    CellCall(Call("add_possibility", possibility, 1, EmptyMap, "-", "-", <<0, 0>>),
             Cell_add_possibility(cell, possibility), "unit", TRUE)

call_add_possibility_count(possibility, weight) ==
    CellCall(Call("add_possibility_count", possibility, weight, EmptyMap, "-", "-", <<0, 0>>),
             Cell_add_possibility_count(cell, possibility, weight), "unit", weight > 0)

call_add_possibilities(possibilities) ==
    CellCall(Call("add_possibilities", "-", 0, possibilities, "-", "-", <<0, 0>>),
             Cell_add_possibilities(cell, possibilities), "unit", AllPositive(possibilities))

call_remove_possibility(possibility) ==
    CellCall(Call("remove_possibility", possibility, 0, EmptyMap, "-", "-", <<0, 0>>),
             Cell_remove_possibility(cell, possibility), "unit", TRUE)

call_remove_possibility_count(possibility, weight) ==
    CellCall(Call("remove_possibility_count", possibility, weight, EmptyMap, "-", "-", <<0, 0>>),
             Cell_remove_possibility_count(cell, possibility, weight), "unit", weight > 0)

call_remove_possibilities(possibilities) ==
    CellCall(Call("remove_possibilities", "-", 0, possibilities, "-", "-", <<0, 0>>),
             Cell_remove_possibilities(cell, possibilities), "unit",
             AllPositive(possibilities))

\* Cell::merge_cell_possibilities, which returns or panics in merge_possibility
call_merge_cell_possibilities(op, func, weights) ==
    IF merge_panics(cell, op, func, weights)
    THEN CellCall(Call("merge_cell_possibilities", "-", 0, weights, op, func, <<0, 0>>),
                  cell, "panicked", AllPositive(weights))
    ELSE CellCall(Call("merge_cell_possibilities", "-", 0, weights, op, func, <<0, 0>>),
                  Cell_merge_cell_possibilities(cell, op, func, weights), "unit",
                  AllPositive(weights))

\* Cell::collapse
call_collapse(value) ==
    CellCall(Call("collapse", value, 0, EmptyMap, "-", "-", <<0, 0>>),
             Cell_collapse(cell, value),
             IF Cell_collapse_result(cell, value) THEN "true" ELSE "false", TRUE)

\* Layout::collapse on the grid that holds the cell at (0, 0)
call_Layout_collapse(coord, value) ==
    CellCall(Call("Layout::collapse", value, 0, EmptyMap, "-", "-", coord),
             get_cell(Layout_collapse(GridOf(cell), coord, value), <<0, 0>>),
             IF Layout_collapse_result(GridOf(cell), coord, value) THEN "true" ELSE "false",
             TRUE)

NextCell ==
    \/ \E possibility \in CellValues : call_add_possibility(possibility)
    \/ \E possibility \in CellValues, weight \in 0..MaxWeight :
            call_add_possibility_count(possibility, weight)
    \/ \E possibilities \in WeightMaps(0) : call_add_possibilities(possibilities)
    \/ \E possibility \in CellValues : call_remove_possibility(possibility)
    \/ \E possibility \in CellValues, weight \in 0..MaxWeight :
            call_remove_possibility_count(possibility, weight)
    \/ \E possibilities \in WeightMaps(0) : call_remove_possibilities(possibilities)
    \/ \E op \in Operations, func \in Functions, weights \in WeightMaps(0) :
            call_merge_cell_possibilities(op, func, weights)
    \/ \E value \in CellValues : call_collapse(value)
    \/ \E coord \in {<<0, 0>>, <<1, 0>>}, value \in CellValues :
            call_Layout_collapse(coord, value)

SpecCell == InitCell /\ [][NextCell]_vars

(***************************************************************************)
(* A WeightedIterator built from a map and asked for its items.            *)
(***************************************************************************)
IteratorKeys == {"a", "b", "c"}

\* the maps an iterator is built from: positive weights, or no entry at all
Pools == UNION {[S -> 1..MaxWeight] : S \in SUBSET IteratorKeys}

\* WeightedIterator::new(map)
InitIterator ==
    /\ SolverUnused
    /\ NoCellCalls
    /\ pool \in Pools
    /\ \E items \in ItemOrders(pool) : iterator = WeightedIterator_new(pool, items)
    /\ yielded = <<>>
    /\ next_result = "nothing"

\* WeightedIterator::next, called until it returns None or panics
next ==
    /\ next_result \notin {"None", "panicked"}
    /\ IF SampleFails(iterator)
       THEN /\ next_result' = "panicked"
            /\ UNCHANGED <<iterator, yielded>>
       ELSE \E index \in ChosenIndices(iterator) :
              IF index = 0
              THEN /\ next_result' = "None"
                   /\ UNCHANGED <<iterator, yielded>>
              ELSE /\ next_result' = "Some"
                   /\ iterator' = WeightedIterator_next(iterator, index)
                   /\ yielded' = Append(yielded, NextItem(iterator, index))
    /\ UNCHANGED <<pool, solver_vars, cell_vars, learned>>

NextIterator == next

SpecIterator == InitIterator /\ [][NextIterator]_vars

(***************************************************************************)
(* The properties checked of the solver.                                   *)
(***************************************************************************)
\* the layout has no cell that is still a superposition
FullyCollapsed(layout) ==
    \A c \in DOMAIN layout.cells : is_collapsed(layout.cells[c])

\* C1: when solve() has returned a layout, every cell of that layout is
\* collapsed, whatever the wavefunction's initial state and hook are.
C1_ReturnedLayoutIsCollapsed ==
    result.kind = "Some" => FullyCollapsed(result.layout)

\* the layout has an uncollapsed cell whose possibility map is empty
HasContradiction(layout) ==
    \E c \in DOMAIN layout.cells :
        /\ ~is_collapsed(layout.cells[c])
        /\ DOMAIN layout.cells[c].possibilities = {}

\* the latest call of solve() has ended: it returned, or it failed
SolveEnded == result.kind \in {"Some", "None", "Panic"}

\* the latest call of solve() has ended without a layout
EndedWithoutLayout == result.kind \in {"None", "Panic"}

\* C2: when the state solve() starts from has an uncollapsed cell with an
\* empty possibility map, solve() returns none, and fails in no other way.
C2_ContradictionReturnsNone ==
    (SolveEnded /\ HasContradiction(initial_state)) => result.kind = "None"

\* the frame has tried every value of its cell's possibility map
FullyTried(frame) == Range(frame.tried) = DOMAIN frame.possibilities

cell_count(layout) == layout.x * layout.y

\* C5: solve() ends by returning Some or none, the recursion of
\* Solver::collapse is never deeper than the number of cells, and no branch
\* tries more candidates than its cell has possibilities.
C5_TerminatesWithSomeOrNone ==
    /\ SolveEnded => result.kind \in {"Some", "None"}
    /\ Len(stack) <= cell_count(initial_state)
    /\ \A i \in 1..Len(stack) :
          Len(stack[i].tried) <= Cardinality(DOMAIN stack[i].possibilities)

\* for every pair of collapsed cells c and d, d the neighbour of c in the
\* direction dir, the tile of d is a key of adj[tile(c)][dir]
HonorsAdjacency(adj_map, layout) ==
    \A c \in DOMAIN layout.cells : \A i \in 1..4 :
        LET d == neighbor_directions4(c)[i][1]
            dir == neighbor_directions4(c)[i][2]
        IN  (HasCell(layout, d) /\ is_collapsed(layout.cells[c])
                /\ is_collapsed(layout.cells[d]))
            => /\ layout.cells[c].value \in DOMAIN adj_map
               /\ dir \in DOMAIN adj_map[layout.cells[c].value]
               /\ layout.cells[d].value \in DOMAIN adj_map[layout.cells[c].value][dir]

\* C6: for a Standard2D wavefunction that learned from a sample, and with
\* no cell pinned, every layout solve() returns honors the learned
\* adjacency, and solve() returns Some.
C6_LearnedAdjacencyHonoredAndSolved ==
    (wavefunction.kind = "Standard2D" /\ pins = <<>>) =>
        /\ result.kind = "Some" => HonorsAdjacency(wavefunction.adj_map, result.layout)
        /\ SolveEnded => result.kind = "Some"

\* C7: no step of solve() changes the solver's initial state
C7_SolveKeepsInitialState ==
    [][(solves' # solves \/ pc = "solving") => initial_state' = initial_state]_vars

\* two calls of solve() on a pinned initial state have ended, the second
\* with a layout that the search had to work for
C7_Witness ==
    /\ solves = 2
    /\ pins # <<>>
    /\ result.kind = "Some"
    /\ result.layout # initial_state

JustPinned == pc = "ready" /\ result.kind = "NoResult" /\ pins # <<>>

LastPin == pins[Len(pins)]

\* the prunings the hook of wf makes for value at coord hold in layout
PruningsApplied(wf, layout, coord, value) ==
    CASE wf.kind = "GridTest" ->
            \A i \in 1..8 :
                LET n == Grid_neighbors(layout, coord)[i]
                IN  (HasCell(layout, n) /\ ~is_collapsed(layout.cells[n]))
                    => /\ value = "Land" => "Sea" \notin DOMAIN layout.cells[n].possibilities
                       /\ value = "Sea" => "Land" \notin DOMAIN layout.cells[n].possibilities
      [] wf.kind = "Sudoku" ->
            \A c \in DOMAIN layout.cells :
                (/\ ~is_collapsed(layout.cells[c])
                 /\ \/ c[1] = coord[1]
                    \/ c[2] = coord[2]
                    \/ c \in Range(Sudoku_subgrid(coord)))
                => value \notin DOMAIN layout.cells[c].possibilities
      [] wf.kind = "Standard2D" ->
            \A i \in 1..4 :
                LET n == neighbor_directions4(coord)[i][1]
                    dir == neighbor_directions4(coord)[i][2]
                IN  (HasCell(layout, n) /\ ~is_collapsed(layout.cells[n]))
                    => IF value \in DOMAIN wf.adj_map /\ dir \in DOMAIN wf.adj_map[value]
                       THEN DOMAIN layout.cells[n].possibilities
                                \subseteq DOMAIN wf.adj_map[value][dir]
                       ELSE DOMAIN layout.cells[n].possibilities = {}
      [] wf.kind = "Custom" ->
            \A i \in 1..4 :
                LET n == neighbor_directions4(coord)[i][1]
                IN  (HasCell(layout, n) /\ ~is_collapsed(layout.cells[n]))
                    => value \notin DOMAIN layout.cells[n].possibilities

\* C9 as the spec states it: after collapse_initial(c, v), the layout that
\* get_initial_state() returns shows c collapsed to v.
C9_PinShownByGetInitialState ==
    JustPinned =>
        get_cell(get_initial_state(wavefunction), LastPin[1]) = Collapsed(LastPin[2])

\* C9, amended: after collapse_initial(c, v) the solver's own initial_state
\* has c collapsed to v and the hook's prunings for (c, v) applied, while
\* the layout get_initial_state() returns is as the wavefunction built it.
C9_PinShownBySolverInitialState ==
    JustPinned =>
        /\ get_cell(initial_state, LastPin[1]) = Collapsed(LastPin[2])
        /\ PruningsApplied(wavefunction, initial_state, LastPin[1], LastPin[2])
        /\ get_initial_state(wavefunction) = Wavefunction_new(wavefunction.kind).layout

\* a value was pinned that the earlier pin's hook had removed from the cell
C9_Witness ==
    /\ JustPinned
    /\ Len(pins) = 2
    /\ pins[1][1] # pins[2][1]
    /\ pins[1][2] = pins[2][2]
    /\ wavefunction.kind = "Sudoku"

\* the pins were made on distinct coordinates
DistinctPins ==
    \A i, j \in 1..Len(pins) : i # j => pins[i][1] # pins[j][1]

\* every pinned cell of the layout is collapsed to its pinned value
KeepsPins(layout) ==
    \A i \in 1..Len(pins) : get_cell(layout, pins[i][1]) = Collapsed(pins[i][2])

\* C10: after pins on distinct coordinates, the layout solve() starts from
\* has every pinned cell collapsed to its pinned value and the prunings of
\* every pin applied, and every layout solve() returns keeps the pins.
C10_PinsCompose ==
    DistinctPins =>
        /\ KeepsPins(initial_state)
        /\ \A i \in 1..Len(pins) :
              PruningsApplied(wavefunction, initial_state, pins[i][1], pins[i][2])
        /\ result.kind = "Some" => KeepsPins(result.layout)

\* C11: every call of Solver::collapse below the outermost was made with the
\* layout of its caller in which the caller's cell was set to the candidate
\* and then the hook was invoked for that cell and candidate, and the
\* coordinate of every call was chosen by next_coord on the layout it got.
C11_HookRunsBetweenCommitAndBranch ==
    /\ \A i \in 1..Len(stack) : stack[i].coord \in next_coord(stack[i].layout)
    /\ \A i \in 1..(Len(stack) - 1) :
          LET caller == stack[i]
              callee == stack[i + 1]
              candidate == caller.tried[Len(caller.tried)]
          IN  /\ caller.tried # <<>>
              /\ get_cell(callee.layout, caller.coord) = Collapsed(candidate)
              /\ PruningsApplied(wavefunction, callee.layout, caller.coord, candidate)
              /\ callee.layout =
                    Wavefunction_collapse(
                        wavefunction,
                        SetCell(caller.layout, caller.coord, Collapsed(candidate)),
                        caller.coord, candidate)

\* a call three levels deep whose layout the hook has pruned
C11_Witness ==
    /\ Len(stack) = 3
    /\ stack[3].layout #
          SetCell(stack[2].layout, stack[2].coord,
                  Collapsed(stack[2].tried[Len(stack[2].tried)]))

(***************************************************************************)
(* The properties checked of WeightedIterator.                             *)
(***************************************************************************)
\* C12: an iterator over a pool of n >= 1 entries returns None only after
\* it has yielded n items, every key of the pool once, whatever the draws.
C12_YieldsEveryKeyOnce ==
    (DOMAIN pool # {} /\ next_result \in {"None", "panicked"}) =>
        /\ next_result = "None"
        /\ Len(yielded) = Cardinality(DOMAIN pool)
        /\ Range(yielded) = DOMAIN pool

\* C13: the first next() of an iterator built from an empty pool returns
\* None, without failing.
C13_EmptyPoolYieldsNone ==
    (pool = EmptyMap /\ next_result # "nothing") =>
        /\ next_result = "None"
        /\ yielded = <<>>

(***************************************************************************)
(* The properties checked of Cell.                                         *)
(***************************************************************************)
\* C14: a cell that started with positive weights and was called with
\* positive weights only has, as a superposition, only positive weights.
C14_WeightsStayPositive ==
    (inputs_positive /\ ~is_collapsed(cell)) => AllPositive(cell.possibilities)

\* the latest call was a merge_cell_possibilities on a superposition, and
\* it returned
MergeReturned ==
    /\ call.name = "merge_cell_possibilities"
    /\ returned = "unit"
    /\ ~is_collapsed(cell_before)

\* the table of Operation: the parts that stay in the cell
TableCellOnly(op) == op \in {"Union", "Modification", "Xor", "Subtraction"}

TableCellAndParam(op) == op \in {"Union", "Modification", "Replacement", "Intersection"}

TableParamOnly(op) == op \in {"Union", "Xor", "Replacement", "ExclusiveReplacement"}

\* C15: after merge_cell_possibilities(op, f, other) a value is in the cell
\* iff it was in the cell only and op keeps that part, or in both maps and op
\* keeps the overlap, or in other only and op keeps that part.
C15_MergeMembershipFollowsTable ==
    MergeReturned =>
        \A v \in CellValues :
            v \in DOMAIN cell.possibilities <=>
                \/ /\ v \in DOMAIN cell_before.possibilities
                   /\ v \notin DOMAIN call.weights
                   /\ TableCellOnly(call.op)
                \/ /\ v \in DOMAIN cell_before.possibilities
                   /\ v \in DOMAIN call.weights
                   /\ TableCellAndParam(call.op)
                \/ /\ v \notin DOMAIN cell_before.possibilities
                   /\ v \in DOMAIN call.weights
                   /\ TableParamOnly(call.op)

\* C16: after a merge with an operation that keeps the overlap and a
\* function f other than Multiply, a value of both maps has the weight
\* f(a, b), a value of the cell only its weight a, and a value of the other
\* map only its weight b.
C16_MergeWeights ==
    (MergeReturned /\ TableCellAndParam(call.op) /\ call.func # "Multiply") =>
        \A v \in DOMAIN cell.possibilities :
            cell.possibilities[v] =
                IF v \in DOMAIN cell_before.possibilities /\ v \in DOMAIN call.weights
                THEN merge_possibility(call.func, cell_before.possibilities[v],
                                       call.weights[v])
                ELSE IF v \in DOMAIN cell_before.possibilities
                     THEN cell_before.possibilities[v]
                     ELSE call.weights[v]

\* C17: after a merge on a superposition of positive weights, no value is
\* left in the cell with the weight 0.
C17_MergeDropsZeroWeights ==
    (MergeReturned /\ AllPositive(cell_before.possibilities)) =>
        AllPositive(cell.possibilities)

\* C18: merge_cell_possibilities called on a superposition with
\* Function::Multiply fails; it never returns.
C18_MultiplyFails ==
    (/\ call.name = "merge_cell_possibilities"
     /\ call.func = "Multiply"
     /\ ~is_collapsed(cell_before))
    => returned = "panicked"

\* the value was the collapsed cell's own, or a possibility of the cell
WasOwnOrPossible(before, value) ==
    \/ is_collapsed(before) /\ before.value = value
    \/ ~is_collapsed(before) /\ value \in DOMAIN before.possibilities

\* C19: Cell::collapse(v), and Layout::collapse(coord, v) for a coordinate in
\* bounds, leave the cell Collapsed(v) and return true iff v was the
\* collapsed value or a possibility of the cell before.
C19_CollapseOverwritesAndReports ==
    (\/ call.name = "collapse"
     \/ call.name = "Layout::collapse" /\ HasCell(GridOf(cell_before), call.coord))
    => /\ cell = Collapsed(call.value)
       /\ returned \in {"true", "false"}
       /\ returned = "true" <=> WasOwnOrPossible(cell_before, call.value)

\* Layout::collapse has overwritten a cell collapsed to another value, and
\* returned false
C19_Witness ==
    /\ call.name = "Layout::collapse"
    /\ call.coord = <<0, 0>>
    /\ is_collapsed(cell_before)
    /\ cell # cell_before
    /\ returned = "false"

AddRemoveMergeNames ==
    {"add_possibility", "add_possibility_count", "add_possibilities",
     "remove_possibility", "remove_possibility_count", "remove_possibilities",
     "merge_cell_possibilities"}

\* C20: every add, remove and merge operation called on a collapsed cell
\* returns and leaves the cell as it was.
C20_CollapsedCellUntouched ==
    (call.name \in AddRemoveMergeNames /\ is_collapsed(cell_before)) =>
        /\ cell = cell_before
        /\ returned = "unit"

\* a cell was collapsed by a call, and then possibilities were added to it
C20_Witness ==
    /\ calls = 2
    /\ is_collapsed(cell_before)
    /\ call.name = "add_possibilities"
    /\ call.weights # EmptyMap

\* C21: on a superposition, add_possibility_count(v, n) followed by
\* remove_possibility_count(v, n) gives back the cell as it was before the
\* two calls, whether v was in it or not.
C21_AddThenRemoveRestores ==
    (call.name = "add_possibility_count" /\ ~is_collapsed(cell_before)) =>
        Cell_remove_possibility_count(cell, call.value, call.weight) = cell_before

(***************************************************************************)
(* The properties checked of Grid and of the helpers of Layout.            *)
(***************************************************************************)
\* the layouts a caller of the solver has shaped: the initial state with the
\* pins made so far, before solve() is called on it
HeldLayouts == IF pc = "ready" /\ result.kind = "NoResult" THEN {initial_state} ELSE {}

\* the coordinates of the sequence that are inside of the layout
InsideOnly(layout, coords) ==
    LET Inside(c) == c[1] < layout.x /\ c[2] < layout.y
    IN  SelectSeq(coords, Inside)

\* the coordinates that Coord2D's and Grid's navigation gives from the cells
\* of the layout
Navigated(layout) ==
    UNION {Range(Coord2D_neighbors(c)) \cup Range(Grid_neighbors(layout, c)) :
              c \in DOMAIN layout.cells}

\* the navigated coordinates that are outside of the layout
Outside(layout) == {c \in Navigated(layout) : c[1] >= layout.x \/ c[2] >= layout.y}

\* C22: for a coordinate outside of the grid get_cell finds no cell,
\* Layout::collapse returns false, and every add and remove helper for one
\* coordinate leaves the layout as it is; a helper for many coordinates does
\* to the layout what it does for the coordinates inside alone.
C22_OutOfBoundsIsSkipped ==
    \A layout \in HeldLayouts : \A v \in Values(wavefunction) :
        LET m == [k \in {v} |-> 1]
        IN  /\ \A c \in Outside(layout) :
                  /\ ~HasCell(layout, c)
                  /\ Layout_collapse(layout, c, v) = layout
                  /\ ~Layout_collapse_result(layout, c, v)
                  /\ add_cell_possibility(layout, c, v) = layout
                  /\ add_cell_possibility_count(layout, c, v, 1) = layout
                  /\ add_cell_possibilities(layout, c, m) = layout
                  /\ remove_cell_possibility(layout, c, v) = layout
                  /\ remove_cell_possibility_count(layout, c, v, 1) = layout
                  /\ remove_cell_possibilities(layout, c, m) = layout
            /\ \A d \in DOMAIN layout.cells :
                  LET coords == Coord2D_neighbors(d)
                      inside == InsideOnly(layout, coords)
                  IN  /\ add_cells_possibility(layout, coords, v)
                            = add_cells_possibility(layout, inside, v)
                      /\ add_cells_possibility_count(layout, coords, v, 1)
                            = add_cells_possibility_count(layout, inside, v, 1)
                      /\ add_cells_possibilities(layout, coords, m)
                            = add_cells_possibilities(layout, inside, m)
                      /\ remove_cells_possibility(layout, coords, v)
                            = remove_cells_possibility(layout, inside, v)
                      /\ remove_cells_possibility_count(layout, coords, v, 1)
                            = remove_cells_possibility_count(layout, inside, v, 1)
                      /\ remove_cells_possibilities(layout, coords, m)
                            = remove_cells_possibilities(layout, inside, m)

\* the hook of GridTest was called for Land at (0, 0): of the eight
\* neighbours five are outside of the grid, and Sea has left the three inside
C22_Witness ==
    /\ wavefunction.kind = "GridTest"
    /\ pins = << <<(<<0, 0>>), "Land">> >>
    /\ Cardinality({c \in Range(Grid_neighbors(initial_state, <<0, 0>>)) :
                       c \in Outside(initial_state)}) = 5
    /\ \A c \in {<<1, 0>>, <<0, 1>>, <<1, 1>>} :
          "Sea" \notin DOMAIN initial_state.cells[c].possibilities

\* C23: detile of a grid of collapsed tiles is a grid of TileWidth x
\* TileHeight times its size, every cell of it collapsed, the cell (x, y) to
\* the value at (x % TileWidth, y % TileHeight) of the tile at
\* (x / TileWidth, y / TileHeight).
C23_DetilePlacesTileValues ==
    (/\ wavefunction.kind = "Standard2D"
     /\ result.kind = "Some"
     /\ FullyCollapsed(result.layout))
    => LET tiles == result.layout
           grid == detile(tiles)
       IN  /\ grid.x = tiles.x * TileWidth
           /\ grid.y = tiles.y * TileHeight
           /\ DOMAIN grid.cells = GridCoords(tiles.x * TileWidth, tiles.y * TileHeight)
           /\ \A c \in DOMAIN grid.cells :
                 grid.cells[c] =
                    Collapsed(
                        get_cell(tiles, <<c[1] \div TileWidth, c[2] \div TileHeight>>)
                            .value[(c[2] % TileHeight) + 1][(c[1] % TileWidth) + 1])

\* solve() has returned a grid of tiles in which two tiles differ and one
\* tile's rows differ
C23_Witness ==
    /\ wavefunction.kind = "Standard2D"
    /\ result.kind = "Some"
    /\ FullyCollapsed(result.layout)
    /\ result.layout.cells[<<0, 0>>] # result.layout.cells[<<0, 1>>]
    /\ \E c \in DOMAIN result.layout.cells :
          result.layout.cells[c].value[1] # result.layout.cells[c].value[2]

\* the sum of the weights of the items the iterator still holds
RemainingWeight(items) ==
    LET sum[i \in 0..Len(items)] == IF i = 0 THEN 0 ELSE sum[i - 1] + items[i][2]
    IN  sum[Len(items)]

\* C26: the total a WeightedIterator samples below is always the sum of the
\* weights of the entries it still holds: each next() takes the weight of
\* the entry it returns off the total.
C26_TotalIsRemainingWeight ==
    iterator.total_sum = RemainingWeight(iterator.items)

\* the samples of gen_range for which next() chooses the item at index
SamplesChoosing(it, index) ==
    {selection \in Samples(it) : chosen_index(it.items, selection) = index}

\* C27: on the first draw of a WeightedIterator, whose total is the sum of
\* all weights, each entry is chosen by exactly as many sample values as its
\* weight, so every entry, the last one included, can be drawn first.
C27_ChosenInProportion ==
    yielded = <<>> =>
        \A index \in 1..Len(iterator.items) :
            Cardinality(SamplesChoosing(iterator, index)) = iterator.items[index][2]

\* the layouts next_coord has scanned: those of the calls of collapse in
\* progress and the one solve() returned
ScannedLayouts ==
    {stack[i].layout : i \in 1..Len(stack)}
        \cup (IF result.kind = "Some" THEN {result.layout} ELSE {})

UncollapsedCoords(layout) == {c \in DOMAIN layout.cells : ~is_collapsed(layout.cells[c])}

\* the uncollapsed cells no uncollapsed cell has a lower entropy than
MinEntropyCoords(layout) ==
    {c \in UncollapsedCoords(layout) :
        \A d \in UncollapsedCoords(layout) :
            ~F64Less(entropy(layout.cells[d]), entropy(layout.cells[c]))}

\* C24: next_coord returns none exactly when the layout has no uncollapsed
\* cell; otherwise it returns one of the uncollapsed cells of the lowest
\* entropy, any of them being possible.
C24_NextCoordIsMinEntropy ==
    \A layout \in ScannedLayouts :
        /\ next_coord(layout) = {} <=> UncollapsedCoords(layout) = {}
        /\ next_coord(layout) = MinEntropyCoords(layout)

\* C25: a pass of the loop of Solver::collapse leaves the layout and the
\* coordinate of every call in progress as they were: the candidate is
\* committed and propagated in a clone, and the next candidate starts from
\* the same parent layout.
C25_ParentLayoutUntouched ==
    [][\A i \in 1..Len(stack) :
          i <= Len(stack') =>
              /\ stack'[i].layout = stack[i].layout
              /\ stack'[i].coord = stack[i].coord
              /\ ~is_collapsed(get_cell(stack'[i].layout, stack'[i].coord))]_vars

\* a call of collapse has committed and propagated a candidate and a call
\* for the next cell is in progress: the cell is collapsed in the layout of
\* the inner call and still a superposition in the layout of the outer one
C25_Witness ==
    /\ Len(stack) >= 2
    /\ stack[1].tried # <<>>
    /\ get_cell(stack[2].layout, stack[1].coord) = Collapsed(stack[1].tried[1])
    /\ ~is_collapsed(get_cell(stack[1].layout, stack[1].coord))
    /\ \E c \in DOMAIN stack[1].layout.cells :
          c # stack[1].coord /\ stack[2].layout.cells[c] # stack[1].layout.cells[c]

\* the layout a pass of the loop has produced, when it committed a candidate
CommittedLayouts ==
    IF pc # "solving" THEN {}
    ELSE IF Len(stack') > Len(stack) THEN {stack'[Len(stack')].layout}
    ELSE IF result'.kind = "Some" THEN {result'.layout}
    ELSE {}

\* C29: the value a pass of the loop commits to the branch cell is a key of
\* that cell's possibility map in the layout the call was given, so a value
\* pruned from the map before the call is never assigned; and the layout
\* solve() returns gives each cell a value of the map the cell had in the
\* state the search started from.
C29_CommitsOnlyPossibleValues ==
    [][/\ \A layout \in CommittedLayouts :
             LET top == stack[Len(stack)]
                 set == get_cell(layout, top.coord)
             IN  /\ is_collapsed(set)
                 /\ set.value \in DOMAIN get_possibilities(get_cell(top.layout, top.coord))
       /\ result'.kind = "Some" =>
             \A c \in DOMAIN initial_state.cells :
                 LET before == initial_state.cells[c]
                     after == result'.layout.cells[c]
                 IN  IF is_collapsed(before) THEN after = before
                     ELSE is_collapsed(after) =>
                             after.value \in DOMAIN before.possibilities]_vars

\* a call of collapse two levels down, whose cell had lost a value to the
\* hook before the call, has committed a candidate
C29_Witness ==
    /\ Len(stack) >= 3
    /\ stack[2].tried # <<>>
    /\ DOMAIN stack[2].possibilities # {}
    /\ DOMAIN stack[2].possibilities # DOMAIN get_possibilities(get_cell(initial_state, stack[2].coord))

\* the merge of a cell with the allowed tiles: the tiles in both, each with
\* the lower of its two weights
IntersectionMin(before, allowed) ==
    IF is_collapsed(before) THEN before
    ELSE Uncollapsed([t \in (DOMAIN before.possibilities) \cap (DOMAIN allowed) |->
                        IF before.possibilities[t] < allowed[t]
                        THEN before.possibilities[t] ELSE allowed[t]])

\* what the hook is to make of the cell at c when tile was set at coord
HookedCell(adj_map, before, coord, tile, c) ==
    LET around == neighbor_directions4(coord)
        toward == {i \in DOMAIN around : around[i][1] = c}
        dir == around[CHOOSE i \in toward : TRUE][2]
    IN  IF toward = {} THEN before.cells[c]
        ELSE IF tile \in DOMAIN adj_map /\ dir \in DOMAIN adj_map[tile]
        THEN IntersectionMin(before.cells[c], adj_map[tile][dir])
        ELSE Uncollapsed(EmptyMap)

\* C28: Standard2D::collapse(layout, coord, tile) changes the four
\* orthogonal neighbours of coord only: a neighbour in a direction with no
\* adj[tile][dir] is cleared, any other is merged with adj[tile][dir] by
\* Intersection and Min; the cell at coord, the diagonal neighbours and every
\* other cell stay as they were.
C28_HookChangesOrthogonalNeighborsOnly ==
    [][pins' # pins =>
          LET coord == pins'[Len(pins')][1]
              tile == pins'[Len(pins')][2]
              before == Layout_collapse(initial_state, coord, tile)
          IN  \A c \in DOMAIN before.cells :
                  initial_state'.cells[c] =
                      HookedCell(wavefunction.adj_map, before, coord, tile, c)]_vars

\* the number of times adjacent was seen next to tile in the direction
AdjacencyCount(adj_map, tile, direction, adjacent) ==
    IF tile \in DOMAIN adj_map /\ direction \in DOMAIN adj_map[tile]
    THEN MapGet(adj_map[tile][direction], adjacent)
    ELSE 0

\* the tiles that are keys or neighbours in the adjacency map
AdjacencyTiles(adj_map) ==
    (DOMAIN adj_map)
        \cup UNION {DOMAIN adj_map[t][d] : <<t, d>> \in
                        {<<t, d>> \in (DOMAIN adj_map) \X {"Up", "Right", "Down", "Left"} :
                            d \in DOMAIN adj_map[t]}}

\* C30: after any calls of learn, on samples collapsed fully or in part, the
\* adjacency map is symmetric (Right against Left, Down against Up, a
\* missing entry counting as 0) and every tile in it has a weight of at
\* least 1 in every cell of the output layout.
C30_LearnedAdjacencyIsSymmetric ==
    LET adj_map == wavefunction.adj_map
        tiles == AdjacencyTiles(adj_map)
    IN  /\ \A t \in tiles, u \in tiles :
              /\ AdjacencyCount(adj_map, t, "Right", u) = AdjacencyCount(adj_map, u, "Left", t)
              /\ AdjacencyCount(adj_map, t, "Down", u) = AdjacencyCount(adj_map, u, "Up", t)
        /\ \A t \in tiles, c \in DOMAIN wavefunction.layout.cells :
              /\ ~is_collapsed(wavefunction.layout.cells[c])
              /\ MapGet(wavefunction.layout.cells[c].possibilities, t) >= 1

\* learn has been called on the sample collapsed in part and then on the
\* whole one, and a tile was seen five times above another
C30_Witness ==
    /\ learned = <<2, 1>>
    /\ \E t \in DOMAIN wavefunction.adj_map, u \in DOMAIN wavefunction.adj_map :
          /\ AdjacencyCount(wavefunction.adj_map, t, "Down", u) = 5
          /\ AdjacencyCount(wavefunction.adj_map, u, "Up", t) = 5

=============================================================================
